---- MODULE Spec2Model ----
(***************************************************************************)
(* SLO evaluation engine of slo-dashboard-poc (src/src/lib/sloMath.ts) and *)
(* the pages and charts that call it.                                      *)
(*                                                                         *)
(* Numbers.  The source computes with JavaScript numbers.  The model uses  *)
(* exact extended rationals [n, d] in lowest terms: d > 0 is a finite      *)
(* value, 1/0 is +Infinity, -1/0 is -Infinity and 0/0 is NaN.  Every       *)
(* comparison with NaN is false and Math.min / Math.max of NaN is NaN, as  *)
(* in JavaScript.  Floating-point rounding is not modelled.                *)
(*                                                                         *)
(* Time.  Timestamps are whole hours; the source's millisecond windows are *)
(* written in hours.                                                       *)
(***************************************************************************)
EXTENDS Integers, Sequences, FiniteSets

VARIABLES
    series,          \* store: series[primarySLI.id], the primary indicator's data points
    primarySLI,      \* seed: slo.indicators[0]
    slo,             \* seed: the SLO (objectivePercent)
    rendered,        \* the latest useMemo result computed from the store, tagged with its component
    argAchieved,     \* argument achievedPercent / pct under evaluation
    argObjective,    \* argument objectivePercent / objective under evaluation
    budgetResult,    \* calculateErrorBudget(argAchieved, argObjective), once evaluated
    rateResult,      \* burnRate(argAchieved, argObjective), once evaluated
    statusResult,    \* getBurnRateStatus(rateResult), once evaluated
    prevBudgetCall,  \* the calculateErrorBudget evaluation before the current one
    barColor,        \* BurnBar's colour for budgetResult.spent, once rendered
    store,           \* useData: seed, series, loading, error
    calls,           \* the fetchData invocations so far, each with its position
    home             \* the Home page: mounted, and its hasFetched ref

storeVars == <<store, calls, home>>

dashVars == <<series, primarySLI, slo, rendered, storeVars>>

mathVars == <<argAchieved, argObjective, budgetResult, rateResult, statusResult, prevBudgetCall,
              barColor>>

vars == <<series, primarySLI, slo, rendered,
          argAchieved, argObjective, budgetResult, rateResult, statusResult, prevBudgetCall,
          barColor, store, calls, home>>

\* "not evaluated yet" / a field that is undefined in the source
None == [none |-> TRUE]

\* a status that is not evaluated yet
NoStatus == "none"

\* a BurnBar that is not rendered yet
NoColor == "unset"

\* an optional number field (value?, p50?, ...) that is undefined
Undefined == -1

\* no useMemo result computed yet
NotRendered == [component |-> "none"]

(***************************************************************************)
(* JavaScript number arithmetic, exact.                                    *)
(***************************************************************************)
RECURSIVE GCD(_, _)
GCD(a, b) == IF b = 0 THEN a ELSE GCD(b, a % b)

Abs(x) == IF x < 0 THEN -x ELSE x

Sign(x) == IF x < 0 THEN -1 ELSE IF x > 0 THEN 1 ELSE 0

\* n/d in lowest terms with d >= 0; x/0 is Sign(x)/0
Norm(n, d) ==
    IF d = 0 THEN [n |-> Sign(n), d |-> 0]
    ELSE LET g == GCD(Abs(n), Abs(d))
             s == Sign(d)
         IN  [n |-> s * (n \div g), d |-> s * (d \div g)]

Num(k) == [n |-> k, d |-> 1]

Infinity == [n |-> 1, d |-> 0]

NaN == [n |-> 0, d |-> 0]

IsNaN(a) == a.n = 0 /\ a.d = 0

RAdd(a, b) ==
    IF a.d = 0 /\ b.d = 0 THEN (IF a.n = b.n THEN a ELSE NaN)
    ELSE Norm(a.n * b.d + b.n * a.d, a.d * b.d)

RSub(a, b) ==
    IF a.d = 0 /\ b.d = 0 THEN (IF a.n = -b.n THEN a ELSE NaN)
    ELSE Norm(a.n * b.d - b.n * a.d, a.d * b.d)

RMul(a, b) == Norm(a.n * b.n, a.d * b.d)

RDiv(a, b) == Norm(a.n * b.d, a.d * b.n)

RLt(a, b) ==
    /\ ~IsNaN(a)
    /\ ~IsNaN(b)
    /\ IF a.d = 0 /\ b.d = 0 THEN a.n < b.n ELSE a.n * b.d < b.n * a.d

RLe(a, b) ==
    /\ ~IsNaN(a)
    /\ ~IsNaN(b)
    /\ IF a.d = 0 /\ b.d = 0 THEN a.n <= b.n ELSE a.n * b.d <= b.n * a.d

RGt(a, b) == RLt(b, a)

RGe(a, b) == RLe(b, a)

\* Math.min / Math.max of two numbers
MathMin(a, b) == IF IsNaN(a) \/ IsNaN(b) THEN NaN ELSE IF RLt(b, a) THEN b ELSE a

MathMax(a, b) == IF IsNaN(a) \/ IsNaN(b) THEN NaN ELSE IF RGt(b, a) THEN b ELSE a

(***************************************************************************)
(* sloMath.ts: burn rate, error budget, status.                            *)
(***************************************************************************)
\* seeded fault: a zero budget yields rate 0 (the guard value of the spent calculation)
burnRate_zeroBudgetZero(pct, objective) ==
    LET err    == RSub(Num(100), pct)
        budget == RSub(Num(100), objective)
    IN  IF RGt(budget, Num(0)) THEN RDiv(err, budget) ELSE Num(0)

burnRate(pct, objective) ==
    LET err    == RSub(Num(100), pct)
        budget == RSub(Num(100), objective)
    IN  IF RGt(budget, Num(0)) THEN RDiv(err, budget) ELSE Infinity

\* seeded fault: the ratio is inverted (budget / error)
calculateErrorBudget_inverted(achievedPercent, objectivePercent) ==
    LET errorBudgetPercent == RSub(Num(100), objectivePercent)
        errorPercent       == RSub(Num(100), achievedPercent)
        spent     == IF RGt(errorBudgetPercent, Num(0))
                     THEN RDiv(errorBudgetPercent, errorPercent) ELSE Num(0)
        remaining == MathMax(Num(0), RSub(Num(1), spent))
    IN  [errorBudgetPercent |-> errorBudgetPercent,
         spent              |-> MathMin(Num(1), spent),
         remaining          |-> remaining,
         spentPercent       |-> MathMin(Num(100), RMul(spent, Num(100))),
         remainingPercent   |-> RMul(remaining, Num(100))]

calculateErrorBudget(achievedPercent, objectivePercent) ==
    LET errorBudgetPercent == RSub(Num(100), objectivePercent)
        errorPercent       == RSub(Num(100), achievedPercent)
        spent     == IF RGt(errorBudgetPercent, Num(0))
                     THEN RDiv(errorPercent, errorBudgetPercent) ELSE Num(0)
        remaining == MathMax(Num(0), RSub(Num(1), spent))
    IN  [errorBudgetPercent |-> errorBudgetPercent,
         spent              |-> MathMin(Num(1), spent),
         remaining          |-> remaining,
         spentPercent       |-> MathMin(Num(100), RMul(spent, Num(100))),
         remainingPercent   |-> RMul(remaining, Num(100))]

\* seeded fault: the warn/critical boundary is exclusive (rate > 2 is critical)
getBurnRateStatus_gt2(rate) ==
    IF RLt(rate, Num(1)) THEN "ok"
    ELSE IF RLe(rate, Num(2)) THEN "warn"
    ELSE "critical"

getBurnRateStatus(rate) ==
    IF RLt(rate, Num(1)) THEN "ok"
    ELSE IF RLt(rate, Num(2)) THEN "warn"
    ELSE "critical"

\* BurnBar.getColor: the colour of the bar for a spent fraction
BurnBar_getColor(spent) ==
    LET remaining        == MathMax(Num(0), RSub(Num(1), spent))
        remainingPercent == RMul(remaining, Num(100))
    IN  IF RGe(remainingPercent, Num(50)) THEN "green"
        ELSE IF RGe(remainingPercent, Num(20)) THEN "amber"
        ELSE "red"

(***************************************************************************)
(* sloMath.ts: reductions over data points.                                *)
(* A DataPoint is [t, good, bad, value, p50, p90, p95, p99]; an optional   *)
(* field that is absent holds Undefined.                                   *)
(***************************************************************************)
CountTypes == {"availability", "quality", "freshness", "correctness"}

\* x ?? 0
OrZero(x) == IF x = Undefined THEN 0 ELSE x

RECURSIVE SumGood(_)
SumGood(points) == IF points = <<>> THEN 0 ELSE Head(points).good + SumGood(Tail(points))

RECURSIVE SumBad(_)
SumBad(points) == IF points = <<>> THEN 0 ELSE Head(points).bad + SumBad(Tail(points))

RECURSIVE SumValue(_)
SumValue(points) ==
    IF points = <<>> THEN 0 ELSE OrZero(Head(points).value) + SumValue(Tail(points))

\* the pct of one point on its own: good / (good + bad || 1) * 100
PointPct(p) ==
    RMul(RDiv(Num(p.good), Num(IF p.good + p.bad = 0 THEN 1 ELSE p.good + p.bad)), Num(100))

RECURSIVE SumPointPct(_)
SumPointPct(points) ==
    IF points = <<>> THEN Num(0) ELSE RAdd(PointPct(Head(points)), SumPointPct(Tail(points)))

\* seeded fault: the mean of the per-point ratios instead of the ratio of the sums
availabilityFromPoints_meanOfRatios(points) ==
    [pct  |-> IF points = <<>> THEN Num(0)
              ELSE RDiv(SumPointPct(points), Num(Len(points))),
     good |-> SumGood(points),
     bad  |-> SumBad(points)]

availabilityFromPoints(points) ==
    LET g == SumGood(points)
        b == SumBad(points)
    IN  [pct  |-> RMul(RDiv(Num(g), Num(IF g + b = 0 THEN 1 ELSE g + b)), Num(100)),
         good |-> g,
         bad  |-> b]

\* seeded fault: an empty sequence reduces to 100
getCurrentSLIValue_empty100(sli, dataPoints) ==
    IF Len(dataPoints) = 0 THEN Num(100)
    ELSE IF sli.type \in CountTypes THEN availabilityFromPoints(dataPoints).pct
    ELSE IF sli.type = "latency" THEN RDiv(Num(SumValue(dataPoints)), Num(Len(dataPoints)))
    ELSE Num(0)

getCurrentSLIValue(sli, dataPoints) ==
    IF Len(dataPoints) = 0 THEN Num(0)
    ELSE IF sli.type \in CountTypes THEN availabilityFromPoints(dataPoints).pct
    ELSE IF sli.type = "latency" THEN RDiv(Num(SumValue(dataPoints)), Num(Len(dataPoints)))
    ELSE Num(0)

\* value meets the target in the indicator's direction
MeetsTarget(sli, value) ==
    IF sli.objectiveDirection = "lte" THEN RLe(value, sli.target) ELSE RGe(value, sli.target)

getLatencyCompliancePercent(sli, dataPoints) ==
    IF Len(dataPoints) = 0 THEN Num(100)
    ELSE LET meetingTarget ==
                 Len(SelectSeq(dataPoints, LAMBDA p : MeetsTarget(sli, Num(OrZero(p.value)))))
         IN  RMul(RDiv(Num(meetingTarget), Num(Len(dataPoints))), Num(100))

\* seeded fault: a value equal to the target does not meet the objective
isSLIMeetingObjective_strict(sli, currentValue) ==
    IF sli.objectiveDirection = "gte" THEN RGt(currentValue, sli.target)
    ELSE RLt(currentValue, sli.target)

isSLIMeetingObjective(sli, currentValue) ==
    IF sli.objectiveDirection = "gte" THEN RGe(currentValue, sli.target)
    ELSE RLe(currentValue, sli.target)

(***************************************************************************)
(* sloMath.ts: windows and burn rates.                                     *)
(***************************************************************************)
\* new Date('2025-10-23T23:59:59Z'), in hours from the model's time origin
demoEndDate == 1000

\* seeded fault: the cutoff itself is outside the window
sliceTimeWindow_exclusive(dataPoints, windowMs) ==
    IF Len(dataPoints) = 0 THEN <<>>
    ELSE LET cutoff == demoEndDate - windowMs
         IN  SelectSeq(dataPoints, LAMBDA p : p.t > cutoff /\ p.t <= demoEndDate)

sliceTimeWindow(dataPoints, windowMs) ==
    IF Len(dataPoints) = 0 THEN <<>>
    ELSE LET cutoff == demoEndDate - windowMs
         IN  SelectSeq(dataPoints, LAMBDA p : p.t >= cutoff /\ p.t <= demoEndDate)

\* seeded fault: an empty window is reduced like any other
calculateBurnRateForWindow_noEmptyGuard(dataPoints, windowMs, sli, objectivePercent) ==
    LET windowData == sliceTimeWindow(dataPoints, windowMs)
    IN  IF sli.type = "latency"
        THEN burnRate(getLatencyCompliancePercent(sli, windowData), objectivePercent)
        ELSE burnRate(getCurrentSLIValue(sli, windowData), objectivePercent)

calculateBurnRateForWindow(dataPoints, windowMs, sli, objectivePercent) ==
    LET windowData == sliceTimeWindow(dataPoints, windowMs)
    IN  IF Len(windowData) = 0 THEN Num(0)
        ELSE IF sli.type = "latency"
             THEN burnRate(getLatencyCompliancePercent(sli, windowData), objectivePercent)
             ELSE burnRate(getCurrentSLIValue(sli, windowData), objectivePercent)

WindowNames == {"1h", "6h", "24h", "3d"}

\* the lookback windows of calculateBurnRates, in hours
windows ==
    [w \in WindowNames |->
        CASE w = "1h"  -> 1
          [] w = "6h"  -> 6
          [] w = "24h" -> 24
          [] w = "3d"  -> 3 * 24]

calculateBurnRates(dataPoints, sli, objectivePercent) ==
    [w \in WindowNames |-> calculateBurnRateForWindow(dataPoints, windows[w], sli, objectivePercent)]

\* % of the window's points whose percentile field (?? 0) is <= target
PercentileCompliance(sli, windowData, field) ==
    RMul(RDiv(Num(Len(SelectSeq(windowData, LAMBDA p : RLe(Num(OrZero(p[field])), sli.target)))),
              Num(Len(windowData))),
         Num(100))

\* seeded fault: the lookback window ends before the point itself
LookbackWindow_beforeOnly(dataPoints, i, windowMs) ==
    SelectSeq(dataPoints,
              LAMBDA p : p.t >= dataPoints[i].t - windowMs /\ p.t < dataPoints[i].t)

\* the points in the lookback window [t - windowMs, t] of point i
LookbackWindow(dataPoints, i, windowMs) ==
    SelectSeq(dataPoints,
              LAMBDA p : p.t >= dataPoints[i].t - windowMs /\ p.t <= dataPoints[i].t)

\* one BurnRatePoint of calculateBurnRateTimeSeries, for point i
BurnRatePointAt(dataPoints, sli, objectivePercent, windowMs, i) ==
    LET windowData == LookbackWindow(dataPoints, i, windowMs)
    IN  IF sli.type = "latency" /\ dataPoints[1].p50 # Undefined
        THEN [timestamp   |-> dataPoints[i].t,
              burnRate    |-> burnRate(PercentileCompliance(sli, windowData, "p95"), objectivePercent),
              p50BurnRate |-> burnRate(PercentileCompliance(sli, windowData, "p50"), objectivePercent),
              p90BurnRate |-> burnRate(PercentileCompliance(sli, windowData, "p90"), objectivePercent),
              p95BurnRate |-> burnRate(PercentileCompliance(sli, windowData, "p95"), objectivePercent),
              p99BurnRate |-> burnRate(PercentileCompliance(sli, windowData, "p99"), objectivePercent)]
        ELSE [timestamp   |-> dataPoints[i].t,
              burnRate    |-> burnRate(getCurrentSLIValue(sli, windowData), objectivePercent),
              p50BurnRate |-> None,
              p90BurnRate |-> None,
              p95BurnRate |-> None,
              p99BurnRate |-> None]

\* indices whose lookback window is not empty (the others are skipped)
RECURSIVE EmittedIndices(_, _, _)
EmittedIndices(dataPoints, windowMs, i) ==
    IF i > Len(dataPoints) THEN <<>>
    ELSE (IF Len(LookbackWindow(dataPoints, i, windowMs)) = 0 THEN <<>> ELSE <<i>>)
         \o EmittedIndices(dataPoints, windowMs, i + 1)

calculateBurnRateTimeSeries(dataPoints, sli, objectivePercent, windowHours) ==
    IF Len(dataPoints) = 0 THEN <<>>
    ELSE LET windowMs == windowHours
             idx      == EmittedIndices(dataPoints, windowMs, 1)
         IN  [k \in 1..Len(idx) |->
                 BurnRatePointAt(dataPoints, sli, objectivePercent, windowMs, idx[k])]

(***************************************************************************)
(* sloMath.ts: incidents, hourly aggregation, breach periods.              *)
(***************************************************************************)
\* the per-point test of detectIncidents
isIncident(sli, point) ==
    IF sli.type \in {"availability", "quality", "freshness"}
    THEN RLt(availabilityFromPoints(<<point>>).pct, RSub(sli.target, Norm(3, 10)))
    ELSE IF sli.type = "latency"
         THEN RGt(Num(OrZero(point.value)), RMul(sli.target, Norm(125, 100)))
         ELSE FALSE

\* the number quoted in an incident's reason
IncidentValue(sli, point) ==
    IF sli.type = "latency" THEN Num(OrZero(point.value))
    ELSE availabilityFromPoints(<<point>>).pct

detectIncidents(dataPoints, sli) ==
    LET hits == SelectSeq(dataPoints, LAMBDA p : isIncident(sli, p))
    IN  [k \in 1..Len(hits) |->
            [timestamp |-> hits[k].t, reason |-> IncidentValue(sli, hits[k])]]

\* Date.getHours() and Date.getDate() of a timestamp in hours; months are
\* taken as 30 days long
getHours(t) == t % 24

getDate(t) == ((t \div 24) % 30) + 1

\* seeded fault: the key holds the absolute day instead of the day of month
HourKey_absoluteDay(point) == <<point.t \div 24, getHours(point.t)>>

\* `${day}-${hour}`
HourKey(point) == <<getDate(point.t), getHours(point.t)>>

\* the keys of the Map grouped, in insertion order
RECURSIVE GroupedKeys(_, _)
GroupedKeys(dataPoints, seen) ==
    IF dataPoints = <<>> THEN <<>>
    ELSE LET key == HourKey(Head(dataPoints))
         IN  IF key \in seen THEN GroupedKeys(Tail(dataPoints), seen)
             ELSE <<key>> \o GroupedKeys(Tail(dataPoints), seen \cup {key})

aggregateByHour(dataPoints, sli) ==
    LET keys == GroupedKeys(dataPoints, {})
    IN  [k \in 1..Len(keys) |->
            [hour  |-> keys[k][2],
             day   |-> keys[k][1],
             value |-> getCurrentSLIValue(sli,
                           SelectSeq(dataPoints, LAMBDA p : HourKey(p) = keys[k]))]]

\* a BreachPeriod's percentile when it is undefined
NoPercentile == "undefined"

\* point.pNN && point.pNN > sli.target
ExceedsTarget(x, target) == x # Undefined /\ x # 0 /\ RGt(Num(x), target)

\* seeded fault: the percentiles are checked lowest first
breachPercentile_p50First(sli, point) ==
    IF sli.type # "latency" THEN NoPercentile
    ELSE IF ExceedsTarget(point.p50, sli.target) THEN "p50"
    ELSE IF ExceedsTarget(point.p90, sli.target) THEN "p90"
    ELSE IF ExceedsTarget(point.p95, sli.target) THEN "p95"
    ELSE IF ExceedsTarget(point.p99, sli.target) THEN "p99"
    ELSE NoPercentile

\* breachPercentile after the if-chain of detectBreachPeriods for one point
breachPercentile(sli, point) ==
    IF sli.type # "latency" THEN NoPercentile
    ELSE IF ExceedsTarget(point.p99, sli.target) THEN "p99"
    ELSE IF ExceedsTarget(point.p95, sli.target) THEN "p95"
    ELSE IF ExceedsTarget(point.p90, sli.target) THEN "p90"
    ELSE IF ExceedsTarget(point.p50, sli.target) THEN "p50"
    ELSE NoPercentile

\* isBreaching after the if-chain of detectBreachPeriods for one point
isBreaching(sli, point) ==
    IF sli.type = "latency" THEN breachPercentile(sli, point) # NoPercentile
    ELSE IF sli.type \in {"availability", "quality"}
         THEN RLt(availabilityFromPoints(<<point>>).pct, sli.target)
         ELSE FALSE

\* the loop of detectBreachPeriods from index i on, with the breach that is
\* open at that index (None when there is none), and the closing push
RECURSIVE BreachScan(_, _, _, _)
BreachScan(dataPoints, sli, i, currentBreach) ==
    IF i > Len(dataPoints)
    THEN IF currentBreach # None
         THEN <<[start      |-> currentBreach.start,
                 end        |-> dataPoints[Len(dataPoints)].t,
                 percentile |-> currentBreach.percentile]>>
         ELSE <<>>
    ELSE LET point == dataPoints[i]
         IN  IF isBreaching(sli, point)
             THEN BreachScan(dataPoints, sli, i + 1,
                             IF currentBreach = None
                             THEN [start |-> point.t, percentile |-> breachPercentile(sli, point)]
                             ELSE currentBreach)
             ELSE (IF currentBreach # None
                   THEN <<[start      |-> currentBreach.start,
                           end        |-> IF i > 1 THEN dataPoints[i - 1].t ELSE point.t,
                           percentile |-> currentBreach.percentile]>>
                   ELSE <<>>)
                  \o BreachScan(dataPoints, sli, i + 1, None)

\* seeded fault: every breaching point is a period of its own
detectBreachPeriods_noMerge(dataPoints, sli) ==
    LET hits == SelectSeq(dataPoints, LAMBDA p : isBreaching(sli, p))
    IN  [k \in 1..Len(hits) |->
            [start |-> hits[k].t, end |-> hits[k].t,
             percentile |-> breachPercentile(sli, hits[k])]]

\* seeded fault: the periods are returned newest first
detectBreachPeriods_newestFirst(dataPoints, sli) ==
    LET found == IF Len(dataPoints) = 0 THEN <<>> ELSE BreachScan(dataPoints, sli, 1, None)
    IN  [k \in 1..Len(found) |-> found[Len(found) + 1 - k]]

\* seeded fault: a period is tagged with the percentile of the point it ends at
detectBreachPeriods_tagFromLastPoint(dataPoints, sli) ==
    LET found == IF Len(dataPoints) = 0 THEN <<>> ELSE BreachScan(dataPoints, sli, 1, None)
        EndPoint(k) == dataPoints[CHOOSE i \in 1..Len(dataPoints) :
                                     dataPoints[i].t = found[k].end /\ isBreaching(sli, dataPoints[i])]
    IN  [k \in 1..Len(found) |->
            [found[k] EXCEPT !.percentile = breachPercentile(sli, EndPoint(k))]]

detectBreachPeriods(dataPoints, sli) ==
    IF Len(dataPoints) = 0 THEN <<>> ELSE BreachScan(dataPoints, sli, 1, None)

(***************************************************************************)
(* Pages and charts: what each component's useMemo computes from the store *)
(* (series, primarySLI, slo).                                              *)
(***************************************************************************)
\* Home: "Time range (fixed at 28 days)"
timeRangeDays == 28

\* seeded fault: the headline uses the mean of the four windows' burn rates
maxBurnRate_average(burnRates) ==
    RDiv(RAdd(RAdd(burnRates["1h"], burnRates["6h"]), RAdd(burnRates["24h"], burnRates["3d"])),
         Num(4))

\* Math.max(burnRates["1h"], burnRates["6h"], burnRates["24h"], burnRates["3d"])
maxBurnRate(burnRates) ==
    MathMax(MathMax(burnRates["1h"], burnRates["6h"]), MathMax(burnRates["24h"], burnRates["3d"]))

\* Home.allSLOStatuses, the revision that budgets latency by compliance
Home_allSLOStatuses ==
    LET data               == series
        windowData         == sliceTimeWindow(data, timeRangeDays * 24)
        currentValue       == getCurrentSLIValue(primarySLI, windowData)
        meetsObjective     == isSLIMeetingObjective(primarySLI, currentValue)
        performancePercent == IF primarySLI.type = "latency"
                              THEN getLatencyCompliancePercent(primarySLI, windowData)
                              ELSE currentValue
        errorBudget        == calculateErrorBudget(performancePercent, slo.objectivePercent)
        burnRates          == calculateBurnRates(data, primarySLI, slo.objectivePercent)
    IN  [component      |-> "Home",
         currentValue   |-> currentValue,
         performancePercent |-> performancePercent,
         meetsObjective |-> meetsObjective,
         status         |-> getBurnRateStatus(maxBurnRate(burnRates)),
         errorBudget    |-> errorBudget,
         burnRates      |-> burnRates]

\* Home.allSLOStatuses of src/pages/Home.tsx
HomeTsx_allSLOStatuses ==
    LET data           == series
        windowData     == sliceTimeWindow(data, 28 * 24)
        currentValue   == getCurrentSLIValue(primarySLI, windowData)
        meetsObjective == isSLIMeetingObjective(primarySLI, currentValue)
        errorBudget    == calculateErrorBudget(currentValue, slo.objectivePercent)
        burnRates      == calculateBurnRates(data, primarySLI, slo.objectivePercent)
    IN  [component      |-> "HomeTsx",
         currentValue   |-> currentValue,
         meetsObjective |-> meetsObjective,
         status         |-> getBurnRateStatus(maxBurnRate(burnRates)),
         errorBudget    |-> errorBudget,
         burnRates      |-> burnRates]

\* Journey.sloStatuses
Journey_sloStatuses ==
    LET data           == series
        windowData     == sliceTimeWindow(data, 28 * 24)
        currentValue   == getCurrentSLIValue(primarySLI, windowData)
        meetsObjective == isSLIMeetingObjective(primarySLI, currentValue)
        errorBudget    == calculateErrorBudget(currentValue, slo.objectivePercent)
        burnRates      == calculateBurnRates(data, primarySLI, slo.objectivePercent)
    IN  [component      |-> "Journey",
         currentValue   |-> currentValue,
         meetsObjective |-> meetsObjective,
         status         |-> getBurnRateStatus(maxBurnRate(burnRates)),
         errorBudget    |-> errorBudget,
         burnRates      |-> burnRates]

\* SLOCard: the points handed to the charts (7 days)
chartWindowData == sliceTimeWindow(series, 7 * 24)

\* BurnRateChart.chartData
BurnRateChart_chartData ==
    [component    |-> "BurnRateChart",
     burnRateData |-> calculateBurnRateTimeSeries(chartWindowData, primarySLI,
                                                  slo.objectivePercent, 1)]

\* point.p95 ?? point.value ?? 0
P95OrValue(point) ==
    IF point.p95 # Undefined THEN point.p95 ELSE OrZero(point.value)

\* the running totals of ReliabilityBurnDownChart.chartData after one more point
Accumulate(sli, acc, point) ==
    IF sli.type = "latency"
    THEN [acc EXCEPT
            !.cumulativeLatencyTotal = @ + 1,
            !.cumulativeLatencyMeetingTarget =
                @ + (IF MeetsTarget(sli, Num(P95OrValue(point))) THEN 1 ELSE 0)]
    ELSE [acc EXCEPT
            !.cumulativeGood = @ + point.good,
            !.cumulativeBad  = @ + point.bad]

\* cumulativePerformance from the running totals
CumulativePerformance(sli, acc) ==
    IF sli.type = "latency"
    THEN IF acc.cumulativeLatencyTotal > 0
         THEN RMul(RDiv(Num(acc.cumulativeLatencyMeetingTarget), Num(acc.cumulativeLatencyTotal)),
                   Num(100))
         ELSE Num(100)
    ELSE LET total == acc.cumulativeGood + acc.cumulativeBad
         IN  IF total > 0 THEN RMul(RDiv(Num(acc.cumulativeGood), Num(total)), Num(100))
             ELSE Num(100)

RECURSIVE BurnDownRows(_, _, _, _)
BurnDownRows(sli, objectivePercent, dataPoints, acc) ==
    IF dataPoints = <<>> THEN <<>>
    ELSE LET point                 == Head(dataPoints)
             next                  == Accumulate(sli, acc, point)
             cumulativePerformance == CumulativePerformance(sli, next)
             errorBudget           == calculateErrorBudget(cumulativePerformance, objectivePercent)
         IN  <<[timestamp            |-> point.t,
                errorBudgetRemaining |-> errorBudget.remainingPercent,
                performance          |-> cumulativePerformance]>>
             \o BurnDownRows(sli, objectivePercent, Tail(dataPoints), next)

\* ReliabilityBurnDownChart.chartData
ReliabilityBurnDownChart_chartData ==
    [component |-> "ReliabilityBurnDownChart",
     chartData |-> BurnDownRows(primarySLI, slo.objectivePercent, chartWindowData,
                                [cumulativeGood |-> 0, cumulativeBad |-> 0,
                                 cumulativeLatencyMeetingTarget |-> 0,
                                 cumulativeLatencyTotal |-> 0])]

\* if (data.length < 14) return
MinTrendPoints == 14

\* seeded fault: a point at exactly seven days before the end is kept
previous7Days_inclusive(data) ==
    LET sevenDaysAgo    == demoEndDate - 7 * 24
        fourteenDaysAgo == demoEndDate - 14 * 24
    IN  SelectSeq(data, LAMBDA point : point.t >= fourteenDaysAgo /\ point.t <= sevenDaysAgo)

\* previous7Days of getTrendIndicator and recentChanges
previous7Days(data) ==
    LET sevenDaysAgo    == demoEndDate - 7 * 24
        fourteenDaysAgo == demoEndDate - 14 * 24
    IN  SelectSeq(data, LAMBDA point : point.t >= fourteenDaysAgo /\ point.t < sevenDaysAgo)

\* Math.abs
MathAbs(a) == IF RLt(a, Num(0)) THEN RSub(Num(0), a) ELSE a

\* seeded fault: the quotient is taken whatever the previous value
percentDiff_noZeroGuard(recentValue, previousValue) ==
    RMul(RDiv(MathAbs(RSub(recentValue, previousValue)), previousValue), Num(100))

\* previousValue !== 0 ? (diff / previousValue) * 100 : 0
percentDiff(recentValue, previousValue) ==
    LET diff == MathAbs(RSub(recentValue, previousValue))
    IN  IF previousValue # Num(0) THEN RMul(RDiv(diff, previousValue), Num(100)) ELSE Num(0)

\* recentValue is better than previousValue in the indicator's direction
isImproving(sli, recentValue, previousValue) ==
    IF sli.objectiveDirection = "gte" THEN RGt(recentValue, previousValue)
    ELSE RLt(recentValue, previousValue)

\* SLOCard.getTrendIndicator: "none" stands for the null it returns
SLOCard_getTrendIndicator ==
    LET data == series
    IN  IF Len(data) < MinTrendPoints
        THEN [component |-> "SLOCard.getTrendIndicator", compared |-> FALSE, trend |-> "none"]
        ELSE LET last7Days == sliceTimeWindow(data, 7 * 24)
                 previous  == previous7Days(data)
             IN  IF Len(previous) = 0
                 THEN [component |-> "SLOCard.getTrendIndicator", compared |-> FALSE,
                       trend |-> "none"]
                 ELSE LET recentValue   == getCurrentSLIValue(primarySLI, last7Days)
                          previousValue == getCurrentSLIValue(primarySLI, previous)
                      IN  [component     |-> "SLOCard.getTrendIndicator",
                           compared      |-> TRUE,
                           last7Days     |-> last7Days,
                           previous7Days |-> previous,
                           trend |->
                               IF RLt(percentDiff(recentValue, previousValue), Num(1)) THEN "none"
                               ELSE IF isImproving(primarySLI, recentValue, previousValue)
                                    THEN "improving"
                                    ELSE "worsening"]

\* Home.recentChanges for the SLO: "none" stands for no entry pushed
Home_recentChanges ==
    LET data == series
    IN  IF Len(data) < MinTrendPoints
        THEN [component |-> "Home.recentChanges", compared |-> FALSE, trend |-> "none"]
        ELSE LET last7Days == sliceTimeWindow(data, 7 * 24)
                 previous  == previous7Days(data)
             IN  IF Len(previous) = 0
                 THEN [component |-> "Home.recentChanges", compared |-> FALSE, trend |-> "none"]
                 ELSE LET recentValue   == getCurrentSLIValue(primarySLI, last7Days)
                          previousValue == getCurrentSLIValue(primarySLI, previous)
                          percentChange == percentDiff(recentValue, previousValue)
                      IN  [component     |-> "Home.recentChanges",
                           compared      |-> TRUE,
                           last7Days     |-> last7Days,
                           previous7Days |-> previous,
                           trend |->
                               IF RLt(percentChange, Num(2)) THEN "none"
                               ELSE IF Home_allSLOStatuses.status = "critical" THEN "breaching"
                               ELSE IF isImproving(primarySLI, recentValue, previousValue)
                                    THEN "improving"
                                    ELSE "worsening"]

\* IncidentTimeline rendered at wall-clock time now: the incidents detected
\* and the ones of the last 7 days that are shown
IncidentTimeline(data, sli, now) ==
    LET incidents    == detectIncidents(data, sli)
        sevenDaysAgo == now - 7 * 24
    IN  [component       |-> "IncidentTimeline",
         now             |-> now,
         incidents       |-> incidents,
         recentIncidents |-> SelectSeq(incidents, LAMBDA inc : inc.timestamp >= sevenDaysAgo)]

(***************************************************************************)
(* The dashboard over a store built from static data: Init draws the       *)
(* indicator, the objective and the series; each action is one component   *)
(* mounting and computing its memo from them.                              *)
(***************************************************************************)
\* longest series
MaxPoints == 3

\* hours before demoEndDate at which a series may have a point
Offsets == {0, 1, 3, 12, 48}

\* (good, bad) of a count point
GoodBad == {<<0, 0>>, <<50, 0>>, <<99, 1>>, <<98, 2>>}

CountPoints ==
    {[t |-> demoEndDate - o, good |-> gb[1], bad |-> gb[2], value |-> Undefined,
      p50 |-> Undefined, p90 |-> Undefined, p95 |-> Undefined, p99 |-> Undefined] :
        o \in Offsets, gb \in GoodBad}

\* (value, p50, p90, p95, p99) of a latency point: legacy value only,
\* percentiles only, and both with the two disagreeing about the target 100
LatencyFields ==
    {<<50, Undefined, Undefined, Undefined, Undefined>>,
     <<150, Undefined, Undefined, Undefined, Undefined>>,
     <<Undefined, 40, 45, 50, 60>>,
     <<Undefined, 50, 80, 150, 200>>,
     <<50, 50, 80, 150, 200>>,
     <<150, 40, 45, 50, 60>>}

LatencyPoints ==
    {[t |-> demoEndDate - o, good |-> 0, bad |-> 0, value |-> f[1],
      p50 |-> f[2], p90 |-> f[3], p95 |-> f[4], p99 |-> f[5]] :
        o \in Offsets, f \in LatencyFields}

\* series as the generator writes them: timestamps strictly increasing
Increasing(s) == \A i \in 1..(Len(s) - 1) : s[i].t < s[i + 1].t

SeriesOf(points) ==
    {s \in UNION {[1..n -> points] : n \in 0..MaxPoints} : Increasing(s)}

SLIs ==
    {[type |-> ty, objectiveDirection |-> "gte", target |-> Num(99)] : ty \in CountTypes}
    \cup {[type |-> "latency", objectiveDirection |-> "lte", target |-> Num(100)]}

SLOs == {[objectivePercent |-> Num(99)], [objectivePercent |-> Num(100)]}

(***************************************************************************)
(* The data store (useData) and its fetchData.  A seed or series value is  *)
(* identified by the fetchData call whose response carried it (from), 0    *)
(* for the values the store is created with.                               *)
(***************************************************************************)
\* error: null
NoError == "null"

\* create(): seed: { experiences: [] }, series: {}, loading: false, error: null
InitialStore ==
    [seed    |-> [experiences |-> 0, from |-> 0],
     series  |-> [from |-> 0],
     loading |-> FALSE,
     error   |-> NoError]

\* set({ loading: true, error: null })
fetchData_start(state) ==
    [state EXCEPT !.loading = TRUE, !.error = NoError]

\* set({ seed, loading: false }) in place of the source's call
fetchData_resolve_seedOnly(state, seedJson, seriesJson) ==
    [state EXCEPT !.seed = seedJson, !.loading = FALSE]

\* set({ seed, series, loading: false })
fetchData_resolve(state, seedJson, seriesJson) ==
    [state EXCEPT !.seed = seedJson, !.series = seriesJson, !.loading = FALSE]

\* error instanceof Error ? error.message : 'Unknown error'
ErrorMessage(thrown) ==
    IF thrown.isError THEN thrown.message ELSE "Unknown error"

\* set({ error: ..., loading: false })
fetchData_catch(state, thrown) ==
    [state EXCEPT !.error = ErrorMessage(thrown), !.loading = FALSE]

\* throw new Error('Failed to fetch data from API')
FailedToFetchData == [isError |-> TRUE, message |-> "Failed to fetch data from API"]

\* a fetchData call that awaits Promise.all of the two fetches
NewCall ==
    [pc             |-> "awaitResponses",
     seedResponse   |-> "pending",
     seriesResponse |-> "pending",
     seedBody       |-> "pending",
     seriesBody     |-> "pending",
     seed           |-> InitialStore.seed]

\* no fetchData call has been made, the Home page is not mounted
StoreIdle ==
    /\ store = InitialStore
    /\ calls = <<>>
    /\ home = [mounted |-> FALSE, hasFetched |-> FALSE]

MathIdle ==
    /\ argAchieved = Num(100)
    /\ argObjective = Num(99)
    /\ budgetResult = None
    /\ rateResult = None
    /\ statusResult = NoStatus
    /\ prevBudgetCall = None
    /\ barColor = NoColor

Init ==
    /\ primarySLI \in SLIs
    /\ slo \in SLOs
    /\ series \in SeriesOf(IF primarySLI.type = "latency" THEN LatencyPoints ELSE CountPoints)
    /\ rendered = NotRendered
    /\ MathIdle
    /\ StoreIdle

RenderHome ==
    /\ rendered = NotRendered
    /\ rendered' = Home_allSLOStatuses
    /\ UNCHANGED <<series, primarySLI, slo, mathVars, storeVars>>

RenderHomeTsx ==
    /\ rendered = NotRendered
    /\ rendered' = HomeTsx_allSLOStatuses
    /\ UNCHANGED <<series, primarySLI, slo, mathVars, storeVars>>

RenderJourney ==
    /\ rendered = NotRendered
    /\ rendered' = Journey_sloStatuses
    /\ UNCHANGED <<series, primarySLI, slo, mathVars, storeVars>>

RenderBurnRateChart ==
    /\ rendered = NotRendered
    /\ rendered' = BurnRateChart_chartData
    /\ UNCHANGED <<series, primarySLI, slo, mathVars, storeVars>>

RenderBurnDownChart ==
    /\ rendered = NotRendered
    /\ rendered' = ReliabilityBurnDownChart_chartData
    /\ UNCHANGED <<series, primarySLI, slo, mathVars, storeVars>>

\* new Date() when IncidentTimeline renders: the end of the demo data, and
\* eight days later
NowInputs == {demoEndDate, demoEndDate + 8 * 24}

RenderIncidentTimeline(now) ==
    /\ rendered = NotRendered
    /\ rendered' = IncidentTimeline(series, primarySLI, now)
    /\ UNCHANGED <<series, primarySLI, slo, mathVars, storeVars>>

\* the component unmounts; its memo is dropped
Unmount ==
    /\ rendered # NotRendered
    /\ rendered' = NotRendered
    /\ UNCHANGED <<series, primarySLI, slo, mathVars, storeVars>>

Next ==
    \/ RenderHome
    \/ RenderHomeTsx
    \/ RenderJourney
    \/ RenderBurnRateChart
    \/ RenderBurnDownChart
    \/ \E now \in NowInputs : RenderIncidentTimeline(now)
    \/ Unmount

Spec == Init /\ [][Next]_vars

(***************************************************************************)
(* The pure functions applied to arguments drawn from bounded sets.        *)
(***************************************************************************)
\* argAchieved percentages within MaxErrTenths tenths of a percent of 100
MaxErrTenths == 3

\* argAchieved percentages: near 100 in tenths, low values, and values above
\* 100 (a mean latency in ms, which Journey.sloStatuses passes)
AchievedInputs ==
    {Norm(1000 - k, 10) : k \in 0..MaxErrTenths} \cup {Num(0), Num(50), Num(98), Num(99), Num(250)}

ObjectiveInputs == {Num(99), Norm(999, 10), Num(100), Num(101)}

MathInit ==
    /\ argAchieved \in AchievedInputs
    /\ argObjective \in ObjectiveInputs
    /\ budgetResult = None
    /\ rateResult = None
    /\ statusResult = NoStatus
    /\ prevBudgetCall = None
    /\ barColor = NoColor
    /\ series = <<>>
    /\ primarySLI = [type |-> "availability", objectiveDirection |-> "gte", target |-> Num(99)]
    /\ slo = [objectivePercent |-> Num(99)]
    /\ rendered = NotRendered
    /\ StoreIdle

\* new arguments; the results of the old ones are dropped, the last
\* calculateErrorBudget evaluation is remembered
SetInputs(a, o) ==
    /\ argAchieved' = a
    /\ argObjective' = o
    /\ prevBudgetCall' =
           IF budgetResult = None THEN prevBudgetCall
           ELSE [achievedPercent  |-> argAchieved,
                 objectivePercent |-> argObjective,
                 result           |-> budgetResult]
    /\ budgetResult' = None
    /\ rateResult' = None
    /\ statusResult' = NoStatus
    /\ barColor' = NoColor
    /\ UNCHANGED dashVars

EvalErrorBudget ==
    /\ budgetResult = None
    /\ budgetResult' = calculateErrorBudget(argAchieved, argObjective)
    /\ UNCHANGED <<argAchieved, argObjective, rateResult, statusResult, prevBudgetCall, barColor,
                   dashVars>>

EvalBurnRate ==
    /\ rateResult = None
    /\ rateResult' = burnRate(argAchieved, argObjective)
    /\ UNCHANGED <<argAchieved, argObjective, budgetResult, statusResult, prevBudgetCall, barColor,
                   dashVars>>

EvalStatus ==
    /\ rateResult # None
    /\ statusResult = NoStatus
    /\ statusResult' = getBurnRateStatus(rateResult)
    /\ UNCHANGED <<argAchieved, argObjective, budgetResult, rateResult, prevBudgetCall, barColor,
                   dashVars>>

\* <BurnBar spent={errorBudget.spent} />
RenderBurnBar ==
    /\ budgetResult # None
    /\ barColor = NoColor
    /\ barColor' = BurnBar_getColor(budgetResult.spent)
    /\ UNCHANGED <<argAchieved, argObjective, budgetResult, rateResult, statusResult,
                   prevBudgetCall, dashVars>>

MathNext ==
    \/ \E a \in AchievedInputs, o \in ObjectiveInputs : SetInputs(a, o)
    \/ EvalErrorBudget
    \/ EvalBurnRate
    \/ EvalStatus
    \/ RenderBurnBar

MathSpec == MathInit /\ [][MathNext]_vars

(***************************************************************************)
(* The series functions applied to series drawn from bounded sets, sorted  *)
(* or not.  The result of the latest application is held in rendered,      *)
(* tagged with the function's name.                                        *)
(***************************************************************************)
\* longest drawn series
MaxSeriesLen == 3

\* (good, bad) around the target 99.9 and the incident margin 99.6
EngineGoodBad == {<<0, 0>>, <<999, 1>>, <<9989, 11>>, <<996, 4>>, <<995, 5>>}

\* (value, p50, p90, p95, p99) around the target 100 and the spike level 125
EngineLatencyFields ==
    {<<50, Undefined, Undefined, Undefined, Undefined>>,
     <<126, Undefined, Undefined, Undefined, Undefined>>,
     <<125, 40, 45, 50, 60>>,
     <<Undefined, 50, 80, 90, 150>>,
     <<Undefined, 50, 110, 120, 100>>,
     <<Undefined, 150, 110, 90, 80>>,
     <<Undefined, 150, Undefined, Undefined, Undefined>>,
     <<Undefined, 150, 160, 170, 180>>}

CountPoint(t, gb) ==
    [t |-> t, good |-> gb[1], bad |-> gb[2], value |-> Undefined,
     p50 |-> Undefined, p90 |-> Undefined, p95 |-> Undefined, p99 |-> Undefined]

LatencyPoint(t, f) ==
    [t |-> t, good |-> 0, bad |-> 0, value |-> f[1],
     p50 |-> f[2], p90 |-> f[3], p95 |-> f[4], p99 |-> f[5]]

\* series in time order, one point an hour, the last one at demoEndDate
HourlySeries(sli) ==
    UNION {IF sli.type = "latency"
           THEN {[i \in 1..n |-> LatencyPoint(demoEndDate - (n - i), f[i])] :
                    f \in [1..n -> EngineLatencyFields]}
           ELSE {[i \in 1..n |-> CountPoint(demoEndDate - (n - i), gb[i])] :
                    gb \in [1..n -> EngineGoodBad]} : n \in 0..MaxSeriesLen}

\* timestamps in any order, repeated or not: before, at the end of and after
\* the demo data
AnyOrderTimes == {demoEndDate - 2, demoEndDate, demoEndDate + 1}

AnyOrderPoints(sli) ==
    IF sli.type = "latency"
    THEN {LatencyPoint(t, f) : t \in AnyOrderTimes,
                               f \in {<<125, 40, 45, 50, 60>>, <<Undefined, 50, 80, 90, 150>>}}
    ELSE {CountPoint(t, gb) : t \in AnyOrderTimes, gb \in {<<999, 1>>, <<995, 5>>}}

AnyOrderSeries(sli) == UNION {[1..n -> AnyOrderPoints(sli)] : n \in 0..MaxSeriesLen}

\* p95 of [ok, ok, fail, fail, fail, ok]
BreachMergeValues == <<50, 60, 150, 200, 180, 90>>

\* the series [ok, ok, fail, fail, fail, ok] with the values in p95
BreachMergeSeries ==
    [i \in 1..6 |-> LatencyPoint(demoEndDate - (6 - i),
                                 <<Undefined, 40, 45, BreachMergeValues[i], 95>>)]

\* two points one 30-day month apart, at the same hour of the same day of
\* the month
MonthApartSeries(sli) ==
    {<<[p EXCEPT !.t = demoEndDate - 30 * 24], q>> :
        p \in AnyOrderPoints(sli), q \in {r \in AnyOrderPoints(sli) : r.t = demoEndDate}}

EngineSeries(sli) ==
    HourlySeries(sli) \cup AnyOrderSeries(sli) \cup MonthApartSeries(sli)
    \cup (IF sli.type = "latency" THEN {BreachMergeSeries} ELSE {})

EngineSLIs ==
    {[type |-> ty, objectiveDirection |-> "gte", target |-> Norm(999, 10)] : ty \in CountTypes}
    \cup {[type |-> "latency", objectiveDirection |-> "lte", target |-> Num(100)]}

\* lookback windows in hours
WindowInputs == {1, 2}

\* windowHours arguments of calculateBurnRateTimeSeries
WindowHoursInputs == {0, 1}

EngineInit ==
    /\ primarySLI \in EngineSLIs
    /\ slo = [objectivePercent |-> Num(99)]
    /\ series \in EngineSeries(primarySLI)
    /\ rendered = NotRendered
    /\ MathIdle
    /\ StoreIdle

EvalSliceTimeWindow(windowMs) ==
    /\ rendered = NotRendered
    /\ rendered' = [component |-> "sliceTimeWindow",
                    windowMs  |-> windowMs,
                    result    |-> sliceTimeWindow(series, windowMs)]
    /\ UNCHANGED <<series, primarySLI, slo, mathVars, storeVars>>

EvalBurnRateForWindow(windowMs) ==
    /\ rendered = NotRendered
    /\ rendered' = [component |-> "calculateBurnRateForWindow",
                    windowMs  |-> windowMs,
                    result    |-> calculateBurnRateForWindow(series, windowMs, primarySLI,
                                                             slo.objectivePercent)]
    /\ UNCHANGED <<series, primarySLI, slo, mathVars, storeVars>>

EvalCurrentSLIValue ==
    /\ rendered = NotRendered
    /\ rendered' = [component |-> "getCurrentSLIValue",
                    result    |-> getCurrentSLIValue(primarySLI, series)]
    /\ UNCHANGED <<series, primarySLI, slo, mathVars, storeVars>>

EvalBurnRateTimeSeries(windowHours) ==
    /\ rendered = NotRendered
    /\ rendered' = [component   |-> "calculateBurnRateTimeSeries",
                    windowHours |-> windowHours,
                    result      |-> calculateBurnRateTimeSeries(series, primarySLI,
                                                                slo.objectivePercent,
                                                                windowHours)]
    /\ UNCHANGED <<series, primarySLI, slo, mathVars, storeVars>>

EvalDetectBreachPeriods ==
    /\ rendered = NotRendered
    /\ rendered' = [component |-> "detectBreachPeriods",
                    result    |-> detectBreachPeriods(series, primarySLI)]
    /\ UNCHANGED <<series, primarySLI, slo, mathVars, storeVars>>

EvalDetectIncidents ==
    /\ rendered = NotRendered
    /\ rendered' = [component |-> "detectIncidents",
                    result    |-> detectIncidents(series, primarySLI)]
    /\ UNCHANGED <<series, primarySLI, slo, mathVars, storeVars>>

EvalAggregateByHour ==
    /\ rendered = NotRendered
    /\ rendered' = [component |-> "aggregateByHour",
                    result    |-> aggregateByHour(series, primarySLI)]
    /\ UNCHANGED <<series, primarySLI, slo, mathVars, storeVars>>

EngineNext ==
    \/ \E windowMs \in WindowInputs : EvalSliceTimeWindow(windowMs)
    \/ \E windowMs \in WindowInputs : EvalBurnRateForWindow(windowMs)
    \/ EvalCurrentSLIValue
    \/ \E windowHours \in WindowHoursInputs : EvalBurnRateTimeSeries(windowHours)
    \/ EvalDetectBreachPeriods
    \/ EvalDetectIncidents
    \/ EvalAggregateByHour
    \/ Unmount

EngineSpec == EngineInit /\ [][EngineNext]_vars

(***************************************************************************)
(* The trend comparison over two weeks of data: a week of points before    *)
(* and a week after demoEndDate - 7 days, each week with one payload, and   *)
(* further points on and around the bounds of the two windows.             *)
(***************************************************************************)
\* most points added on and around the window bounds
MaxBoundaryPoints == 1

\* (good, bad) with ratios 100, 99, 95, 80, 84 and 0
TrendGoodBad == {<<100, 0>>, <<99, 1>>, <<95, 5>>, <<80, 20>>, <<84, 16>>, <<0, 5>>}

\* latency values in ms
TrendValues == {100, 101, 105, 95, 0}

TrendPayloads(sli) ==
    IF sli.type = "latency" THEN TrendValues ELSE TrendGoodBad

TrendPoint(sli, t, payload) ==
    IF sli.type = "latency"
    THEN LatencyPoint(t, <<payload, Undefined, Undefined, Undefined, Undefined>>)
    ELSE CountPoint(t, payload)

\* n daily points from time first on
DailyPoints(sli, first, n, payload) ==
    [k \in 1..n |-> TrendPoint(sli, first + 24 * (k - 1), payload)]

\* before, on and after the bounds of the two windows
BoundaryTimes ==
    {demoEndDate - 14 * 24 - 1, demoEndDate - 14 * 24, demoEndDate - 7 * 24,
     demoEndDate, demoEndDate + 1}

BoundaryPoints(sli, payload) ==
    UNION {[1..n -> {TrendPoint(sli, t, payload) : t \in BoundaryTimes}] :
              n \in 0..MaxBoundaryPoints}

\* a week in each window; two weeks' points in the recent window only; one
\* point short of MinTrendPoints
TrendSeries(sli) ==
    UNION {
        UNION {
            {DailyPoints(sli, demoEndDate - 14 * 24 + 1, 7, prior)
                \o DailyPoints(sli, demoEndDate - 7 * 24 + 1, 7, recent) \o extra,
             DailyPoints(sli, demoEndDate - 7 * 24 + 1, 7, recent)
                \o DailyPoints(sli, demoEndDate - 7 * 24 + 2, 7, recent) \o extra,
             DailyPoints(sli, demoEndDate - 14 * 24 + 1, 6, prior)
                \o DailyPoints(sli, demoEndDate - 7 * 24 + 1, 7, recent)} :
            extra \in BoundaryPoints(sli, recent)} :
        prior \in TrendPayloads(sli), recent \in TrendPayloads(sli)}

TrendSLIs ==
    {[type |-> "availability", objectiveDirection |-> "gte", target |-> Num(99)],
     [type |-> "latency", objectiveDirection |-> "lte", target |-> Num(100)]}

TrendSLOs == {[objectivePercent |-> Num(99)], [objectivePercent |-> Num(50)]}

TrendInit ==
    /\ primarySLI \in TrendSLIs
    /\ slo \in TrendSLOs
    /\ series \in TrendSeries(primarySLI)
    /\ rendered = NotRendered
    /\ MathIdle
    /\ StoreIdle

RenderTrendIndicator ==
    /\ rendered = NotRendered
    /\ rendered' = SLOCard_getTrendIndicator
    /\ UNCHANGED <<series, primarySLI, slo, mathVars, storeVars>>

RenderRecentChanges ==
    /\ rendered = NotRendered
    /\ rendered' = Home_recentChanges
    /\ UNCHANGED <<series, primarySLI, slo, mathVars, storeVars>>

TrendNext ==
    \/ RenderTrendIndicator
    \/ RenderRecentChanges
    \/ Unmount

TrendSpec == TrendInit /\ [][TrendNext]_vars

(***************************************************************************)
(* The store's fetchData, called by the Home page on mount and by its      *)
(* Retry button, with each response and each body drawn at the await that  *)
(* receives it.                                                            *)
(***************************************************************************)
\* most fetchData calls
MaxFetches == 3

\* a fetch resolves with response.ok, resolves without it, or rejects
ResponseOutcomes == {"ok", "notOk", "rejected"}

\* what a rejected fetch or a failed json() throws
Thrown ==
    {[isError |-> TRUE,  message |-> "Failed to fetch"],
     [isError |-> FALSE, message |-> ""]}

\* seed.experiences.length of a parsed seed body
ExperienceCounts == {0, 1}

Settle(c, fields) ==
    [calls EXCEPT ![c] = [name \in DOMAIN calls[c] |->
                             IF name = "pc" THEN "settled"
                             ELSE IF name \in DOMAIN fields THEN fields[name]
                             ELSE calls[c][name]]]

\* fetchData(): set({ loading: true, error: null }), then the two fetches
fetchData ==
    /\ Len(calls) < MaxFetches
    /\ store' = fetchData_start(store)
    /\ calls' = Append(calls, NewCall)

\* the Home page mounts: useRef(false)
HomeMount ==
    /\ ~home.mounted
    /\ home' = [mounted |-> TRUE, hasFetched |-> FALSE]
    /\ UNCHANGED <<store, calls, series, primarySLI, slo, rendered, mathVars>>

HomeUnmount ==
    /\ home.mounted
    /\ home' = [home EXCEPT !.mounted = FALSE]
    /\ UNCHANGED <<store, calls, series, primarySLI, slo, rendered, mathVars>>

\* useEffect(() => { if (!hasFetched.current && ...) { ...; fetchData(); } })
HomeFetchOnMount ==
    /\ home.mounted
    /\ ~home.hasFetched
    /\ store.seed.experiences = 0
    /\ ~store.loading
    /\ store.error = NoError
    /\ home' = [home EXCEPT !.hasFetched = TRUE]
    /\ fetchData
    /\ UNCHANGED <<series, primarySLI, slo, rendered, mathVars>>

\* the error view's <button onClick={fetchData}>Retry</button>
HomeRetry ==
    /\ home.mounted
    /\ ~store.loading
    /\ store.error # NoError
    /\ fetchData
    /\ UNCHANGED <<home, series, primarySLI, slo, rendered, mathVars>>

\* await Promise.all([fetch(seed), fetch(series)]), then the ok test
ResponsesSettle(c, seedOutcome, seriesOutcome, thrown) ==
    /\ calls[c].pc = "awaitResponses"
    /\ IF "rejected" \in {seedOutcome, seriesOutcome}
       THEN /\ store' = fetchData_catch(store, thrown)
            /\ calls' = Settle(c, [seedResponse |-> seedOutcome, seriesResponse |-> seriesOutcome])
       ELSE IF seedOutcome # "ok" \/ seriesOutcome # "ok"
       THEN /\ store' = fetchData_catch(store, FailedToFetchData)
            /\ calls' = Settle(c, [seedResponse |-> seedOutcome, seriesResponse |-> seriesOutcome])
       ELSE /\ store' = store
            /\ calls' = [calls EXCEPT ![c].pc = "awaitSeedJson",
                                      ![c].seedResponse = seedOutcome,
                                      ![c].seriesResponse = seriesOutcome]
    /\ UNCHANGED <<home, series, primarySLI, slo, rendered, mathVars>>

\* const seed = await seedResponse.json()
SeedJson(c, parsed, experiences, thrown) ==
    /\ calls[c].pc = "awaitSeedJson"
    /\ IF parsed
       THEN /\ store' = store
            /\ calls' = [calls EXCEPT ![c].pc = "awaitSeriesJson",
                                      ![c].seedBody = "parsed",
                                      ![c].seed = [experiences |-> experiences, from |-> c]]
       ELSE /\ store' = fetchData_catch(store, thrown)
            /\ calls' = Settle(c, [seedBody |-> "threw"])
    /\ UNCHANGED <<home, series, primarySLI, slo, rendered, mathVars>>

\* const series = await seriesResponse.json(), then set({ seed, series, ... })
SeriesJson(c, parsed, thrown) ==
    /\ calls[c].pc = "awaitSeriesJson"
    /\ IF parsed
       THEN /\ store' = fetchData_resolve(store, calls[c].seed, [from |-> c])
            /\ calls' = Settle(c, [seriesBody |-> "parsed"])
       ELSE /\ store' = fetchData_catch(store, thrown)
            /\ calls' = Settle(c, [seriesBody |-> "threw"])
    /\ UNCHANGED <<home, series, primarySLI, slo, rendered, mathVars>>

StoreInit ==
    /\ StoreIdle
    /\ series = <<>>
    /\ primarySLI = [type |-> "availability", objectiveDirection |-> "gte", target |-> Num(99)]
    /\ slo = [objectivePercent |-> Num(99)]
    /\ rendered = NotRendered
    /\ MathIdle

StoreNext ==
    \/ HomeMount
    \/ HomeUnmount
    \/ HomeFetchOnMount
    \/ HomeRetry
    \/ \E c \in 1..Len(calls), seedOutcome \in ResponseOutcomes,
          seriesOutcome \in ResponseOutcomes, thrown \in Thrown :
          ResponsesSettle(c, seedOutcome, seriesOutcome, thrown)
    \/ \E c \in 1..Len(calls), parsed \in BOOLEAN, experiences \in ExperienceCounts,
          thrown \in Thrown :
          SeedJson(c, parsed, experiences, thrown)
    \/ \E c \in 1..Len(calls), parsed \in BOOLEAN, thrown \in Thrown :
          SeriesJson(c, parsed, thrown)

StoreSpec == StoreInit /\ [][StoreNext]_vars

(***************************************************************************)
(* Claims about the pure functions (checked under MathSpec).               *)
(***************************************************************************)
InUnit(x) == RGe(x, Num(0)) /\ RLe(x, Num(1))

\* C1: for every achievedPercent and objectivePercent the record returned by
\* calculateErrorBudget has spent in [0,1], remaining in [0,1],
\* remaining = 1 - spent, spentPercent = 100 * spent and
\* remainingPercent = 100 * remaining.
C1_BudgetRecordInRange ==
    budgetResult # None =>
        /\ InUnit(budgetResult.spent)
        /\ InUnit(budgetResult.remaining)
        /\ budgetResult.remaining = RSub(Num(1), budgetResult.spent)
        /\ budgetResult.spentPercent = RMul(Num(100), budgetResult.spent)
        /\ budgetResult.remainingPercent = RMul(Num(100), budgetResult.remaining)

\* the two latest calculateErrorBudget evaluations, when both exist
BothBudgets == prevBudgetCall # None /\ budgetResult # None

\* C2: for a fixed objectivePercent below 100 and achieved percentages
\* a1 <= a2, calculateErrorBudget(a1).spent >= calculateErrorBudget(a2).spent
\* and calculateErrorBudget(a1).remaining <= calculateErrorBudget(a2).remaining.
C2_BudgetMonotone ==
    (/\ BothBudgets
     /\ prevBudgetCall.objectivePercent = argObjective
     /\ RLt(argObjective, Num(100))) =>
        /\ RLe(prevBudgetCall.achievedPercent, argAchieved) =>
              /\ RGe(prevBudgetCall.result.spent, budgetResult.spent)
              /\ RLe(prevBudgetCall.result.remaining, budgetResult.remaining)
        /\ RLe(argAchieved, prevBudgetCall.achievedPercent) =>
              /\ RGe(budgetResult.spent, prevBudgetCall.result.spent)
              /\ RLe(budgetResult.remaining, prevBudgetCall.result.remaining)

\* two evaluations for one objective below 100 where the lower achieved
\* percentage has strictly more budget spent
C2_Witness ==
    /\ BothBudgets
    /\ prevBudgetCall.objectivePercent = argObjective
    /\ RLt(argObjective, Num(100))
    /\ RLt(prevBudgetCall.achievedPercent, argAchieved)
    /\ RGt(prevBudgetCall.result.spent, budgetResult.spent)
    /\ RLt(prevBudgetCall.result.remaining, budgetResult.remaining)

C5_ZeroBudget ==
    RGe(argObjective, Num(100)) =>
        /\ rateResult # None => rateResult = Infinity
        /\ budgetResult # None =>
              /\ budgetResult.spent = Num(0)
              /\ budgetResult.remaining = Num(1)

\* objective 100 with errors present: infinite rate, nothing spent
C5_Witness ==
    /\ argObjective = Num(100)
    /\ RLt(argAchieved, Num(100))
    /\ rateResult = Infinity
    /\ budgetResult # None
    /\ budgetResult.spent = Num(0)
    /\ budgetResult.remaining = Num(1)

\* the status for a spent fraction: ok below 50%, warn from 50% to 80%,
\* critical above 80%
SpendStatus(spent) ==
    IF RLt(spent, Norm(1, 2)) THEN "ok"
    ELSE IF RLe(spent, Norm(4, 5)) THEN "warn"
    ELSE "critical"

\* the status a BurnBar colour stands for
ColorStatus(color) ==
    CASE color = "green" -> "ok"
      [] color = "amber" -> "warn"
      [] color = "red"   -> "critical"

\* C20: for every achievedPercent and every objectivePercent < 100 the status
\* getBurnRateStatus(burnRate(achievedPercent, objectivePercent)) agrees with
\* the spend-based status of calculateErrorBudget(...).spent: ok exactly when
\* less than 50% of the budget is spent, warn exactly when 50-80% is spent,
\* critical exactly when more than 80% is spent.
C20_BurnRateSpendConsistency ==
    (/\ RLt(argObjective, Num(100))
     /\ statusResult # NoStatus
     /\ budgetResult # None) =>
        /\ statusResult = SpendStatus(budgetResult.spent)
        /\ barColor # NoColor => statusResult = ColorStatus(barColor)

(***************************************************************************)
(* Claims about the dashboard (checked under Spec).                        *)
(***************************************************************************)
\* the components that compute a headline status and error budget
HeadlineComponents == {"Home", "HomeTsx", "Journey"}

HeadlineRendered == rendered.component \in HeadlineComponents

\* the budgeting window of the primary indicator (28 days)
BudgetWindow == sliceTimeWindow(series, 28 * 24)

C6_CountReduction ==
    (HeadlineRendered /\ primarySLI.type \in CountTypes) =>
        LET w == BudgetWindow
            g == SumGood(w)
            b == SumBad(w)
        IN  /\ Len(w) = 0 => rendered.currentValue = Num(0)
            /\ (Len(w) > 0 /\ g + b > 0) => rendered.currentValue = Norm(100 * g, g + b)
            /\ (Len(w) > 0 /\ \A i \in 1..Len(w) : w[i].bad = 0 /\ w[i].good > 0) =>
                  rendered.currentValue = Num(100)

\* a window of points with different positive totals, where the ratio of
\* sums differs from the mean of the per-point ratios
C6_Witness ==
    /\ rendered.component = "Home"
    /\ primarySLI.type \in CountTypes
    /\ LET w == BudgetWindow
       IN  /\ Len(w) >= 2
           /\ \E i, j \in 1..Len(w) :
                 /\ w[i].good + w[i].bad > 0
                 /\ w[j].good + w[j].bad > w[i].good + w[i].bad
           /\ rendered.currentValue = Norm(100 * SumGood(w), SumGood(w) + SumBad(w))
           /\ rendered.currentValue # availabilityFromPoints_meanOfRatios(w).pct

\* C7: for a count-based indicator and a non-empty window in which every
\* point has good = 0 and bad = 0, the reduction returns 100, not 0.
C7_ZeroDenominatorIs100 ==
    (/\ HeadlineRendered
     /\ primarySLI.type \in CountTypes
     /\ Len(BudgetWindow) > 0
     /\ \A i \in 1..Len(BudgetWindow) : BudgetWindow[i].good = 0 /\ BudgetWindow[i].bad = 0) =>
        rendered.currentValue = Num(100)

\* C8: for a latency primary indicator the headline error budget is computed
\* from the compliance percentage of the budgeting window
\* (100 * points meeting the target / points), never from the mean latency.
C8_LatencyBudgetFromCompliance ==
    (HeadlineRendered /\ primarySLI.type = "latency" /\ Len(BudgetWindow) > 0) =>
        rendered.errorBudget =
            calculateErrorBudget(getLatencyCompliancePercent(primarySLI, BudgetWindow),
                                 slo.objectivePercent)

\* the burn rates a latency lookback window may yield under C9: from the
\* compliance percentage by value, or by the primary percentile p95
ComplianceBurnRates(windowData) ==
    {burnRate(getLatencyCompliancePercent(primarySLI, windowData), slo.objectivePercent),
     burnRate(PercentileCompliance(primarySLI, windowData, "p95"), slo.objectivePercent)}

\* C9: for a latency indicator every burn rate of calculateBurnRates and
\* every sample of calculateBurnRateTimeSeries equals
\* burnRate(compliance percentage of the lookback window, objectivePercent);
\* mean latency is never passed to burnRate.
C9_LatencyBurnFromCompliance ==
    primarySLI.type = "latency" =>
        /\ HeadlineRendered =>
              \A w \in WindowNames :
                  LET windowData == sliceTimeWindow(series, windows[w])
                  IN  Len(windowData) > 0 =>
                          rendered.burnRates[w] \in ComplianceBurnRates(windowData)
        /\ rendered.component = "BurnRateChart" =>
              \A k \in 1..Len(rendered.burnRateData) :
                  LET ts         == rendered.burnRateData[k].timestamp
                      windowData == SelectSeq(chartWindowData,
                                              LAMBDA p : p.t >= ts - 1 /\ p.t <= ts)
                  IN  rendered.burnRateData[k].burnRate \in ComplianceBurnRates(windowData)

RECURSIVE SumField(_, _)
SumField(points, field) ==
    IF points = <<>> THEN 0 ELSE OrZero(Head(points)[field]) + SumField(Tail(points), field)

PercentileFields == {"p50", "p90", "p95", "p99"}

\* C10: for a latency indicator whose points carry percentile fields, the
\* latency reductions (the mean latency used as current value, and the
\* compliance percentage) are computed from the percentile fields and not
\* from value.
C10_PercentilePrecedence ==
    (/\ HeadlineRendered
     /\ primarySLI.type = "latency"
     /\ Len(BudgetWindow) > 0
     /\ \A i \in 1..Len(BudgetWindow) :
            \A f \in PercentileFields : BudgetWindow[i][f] # Undefined) =>
        \E f \in PercentileFields :
            /\ rendered.currentValue =
                   RDiv(Num(SumField(BudgetWindow, f)), Num(Len(BudgetWindow)))
            /\ rendered.component = "Home" =>
                   rendered.performancePercent = PercentileCompliance(primarySLI, BudgetWindow, f)

\* C13: isSLIMeetingObjective is true exactly when value >= target for
\* direction gte and exactly when value <= target for direction lte; a value
\* equal to the target meets the objective in both directions.
C13_MeetsObjective ==
    HeadlineRendered =>
        /\ primarySLI.objectiveDirection = "gte" =>
              (rendered.meetsObjective <=> ~RLt(rendered.currentValue, primarySLI.target))
        /\ primarySLI.objectiveDirection = "lte" =>
              (rendered.meetsObjective <=> ~RGt(rendered.currentValue, primarySLI.target))
        /\ rendered.currentValue = primarySLI.target => rendered.meetsObjective

\* a current value exactly on the target of a gte indicator, objective met
C13_Witness ==
    /\ HeadlineRendered
    /\ primarySLI.objectiveDirection = "gte"
    /\ Len(BudgetWindow) > 0
    /\ rendered.currentValue = primarySLI.target
    /\ rendered.meetsObjective

\* C18: the cumulative burn-down is monotone: walking the series left to
\* right, once the error budget remaining has reached 0 at some point it is
\* not above 0 at any later point.
C18_BurnDownNoRecovery ==
    rendered.component = "ReliabilityBurnDownChart" =>
        \A i, j \in 1..Len(rendered.chartData) :
            (i < j /\ rendered.chartData[i].errorBudgetRemaining = Num(0)) =>
                ~RGt(rendered.chartData[j].errorBudgetRemaining, Num(0))

\* C28: for a count-based primary indicator with no data points in the
\* budgeting window and 0 < objectivePercent < 100, the headline status is
\* ok (all four window burn rates are 0) while the headline error budget is
\* fully consumed (achieved value 0, spent = 1, remaining = 0).
C28_EmptySeriesDisagreement ==
    (/\ HeadlineRendered
     /\ primarySLI.type \in CountTypes
     /\ Len(BudgetWindow) = 0
     /\ RGt(slo.objectivePercent, Num(0))
     /\ RLt(slo.objectivePercent, Num(100))) =>
        /\ rendered.status = "ok"
        /\ \A w \in WindowNames : rendered.burnRates[w] = Num(0)
        /\ rendered.currentValue = Num(0)
        /\ rendered.errorBudget.spent = Num(1)
        /\ rendered.errorBudget.remaining = Num(0)

\* the empty series rendered by Home: status ok, nothing of the budget left
C28_Witness ==
    /\ rendered.component = "Home"
    /\ primarySLI.type \in CountTypes
    /\ series = <<>>
    /\ slo.objectivePercent = Num(99)
    /\ rendered.status = "ok"
    /\ rendered.errorBudget.spent = Num(1)
    /\ rendered.errorBudget.remainingPercent = Num(0)

\* C29: the incident timeline's last-7-days window ends at the same
\* reference instant as sliceTimeWindow's windows, for every wall-clock time
\* at which the dashboard is rendered: every incident detected at a point
\* that sliceTimeWindow(series, 7 days) retains is also shown by
\* IncidentTimeline.
C29_TimelineSharesReference ==
    rendered.component = "IncidentTimeline" =>
        \A k \in 1..Len(rendered.incidents) :
            (\E i \in 1..Len(chartWindowData) :
                 chartWindowData[i].t = rendered.incidents[k].timestamp) =>
                \E j \in 1..Len(rendered.recentIncidents) :
                    rendered.recentIncidents[j] = rendered.incidents[k]

(***************************************************************************)
(* Claims about the series functions (checked under EngineSpec).           *)
(***************************************************************************)
\* the function whose result rendered holds
Evaluated(name) == rendered.component = name

\* the indices of series whose timestamp lies in [lo, hi]
IndicesWithin(lo, hi) == {i \in 1..Len(series) : lo <= series[i].t /\ series[i].t <= hi}

\* the k-th smallest element of a set of indices
NthIndex(S, k) == CHOOSE i \in S : Cardinality({j \in S : j <= i}) = k

\* the points of series at the indices S, in input order
PointsAt(S) == [k \in 1..Cardinality(S) |-> series[NthIndex(S, k)]]

C12_EmptyDefaults ==
    /\ (Evaluated("sliceTimeWindow") /\ series = <<>>) => rendered.result = <<>>
    /\ (/\ Evaluated("calculateBurnRateForWindow")
        /\ IndicesWithin(demoEndDate - rendered.windowMs, demoEndDate) = {}) =>
           rendered.result = Num(0)
    /\ (Evaluated("getCurrentSLIValue") /\ series = <<>> /\ primarySLI.type \in CountTypes) =>
           rendered.result = Num(0)
    /\ (/\ series = <<>>
        /\ rendered.component \in {"calculateBurnRateTimeSeries", "detectBreachPeriods",
                                   "detectIncidents", "aggregateByHour"}) =>
           rendered.result = <<>>

\* a count series with points, none of them inside the lookback window:
\* burn rate 0
C12_Witness ==
    /\ Evaluated("calculateBurnRateForWindow")
    /\ primarySLI.type \in CountTypes
    /\ Len(series) > 0
    /\ IndicesWithin(demoEndDate - rendered.windowMs, demoEndDate) = {}
    /\ rendered.result = Num(0)

\* point i of series is breaching for the primary indicator
BreachingAt(i) == isBreaching(primarySLI, series[i])

\* the maximal runs <<first, last>> of consecutive breaching points
MaximalRuns ==
    {r \in (1..Len(series)) \X (1..Len(series)) :
        /\ r[1] <= r[2]
        /\ \A i \in r[1]..r[2] : BreachingAt(i)
        /\ r[1] = 1 \/ ~BreachingAt(r[1] - 1)
        /\ r[2] = Len(series) \/ ~BreachingAt(r[2] + 1)}

\* the k-th maximal run from the left
NthRun(k) == CHOOSE r \in MaximalRuns : Cardinality({q \in MaximalRuns : q[1] <= r[1]}) = k

\* C14: detectBreachPeriods merges adjacent breaching points: every maximal
\* run of consecutive breaching points yields exactly one period, from the
\* timestamp of the run's first point to the timestamp of its last point; a
\* run open at the end of the series closes at the last point; there are as
\* many periods as maximal runs; [50,60,150,200,180,90] against target 100
\* gives one period covering points 3 to 5.
C14_BreachMerge ==
    Evaluated("detectBreachPeriods") =>
        /\ Len(rendered.result) = Cardinality(MaximalRuns)
        /\ \A k \in 1..Len(rendered.result) :
              /\ rendered.result[k].start = series[NthRun(k)[1]].t
              /\ rendered.result[k].end = series[NthRun(k)[2]].t
        /\ series = BreachMergeSeries =>
              /\ Len(rendered.result) = 1
              /\ rendered.result[1].start = series[3].t
              /\ rendered.result[1].end = series[5].t

\* the breach-merge series evaluated: one period, points 3 to 5
C14_Witness ==
    /\ Evaluated("detectBreachPeriods")
    /\ series = BreachMergeSeries
    /\ Len(rendered.result) = 1
    /\ rendered.result[1].start = demoEndDate - 3
    /\ rendered.result[1].end = demoEndDate - 1

NonDecreasing(s) == \A i \in 1..(Len(s) - 1) : s[i].t <= s[i + 1].t

\* C15: for every series with non-decreasing timestamps the periods of
\* detectBreachPeriods are ordered by start time and pairwise
\* non-overlapping: start <= end for each period, and each period's end is
\* not later than the next period's start.
C15_PeriodsOrdered ==
    (Evaluated("detectBreachPeriods") /\ NonDecreasing(series)) =>
        /\ \A k \in 1..Len(rendered.result) : rendered.result[k].start <= rendered.result[k].end
        /\ \A k \in 1..(Len(rendered.result) - 1) :
              /\ rendered.result[k].start <= rendered.result[k + 1].start
              /\ rendered.result[k].end <= rendered.result[k + 1].start

\* two periods in a series in time order, the first ending before the
\* second starts
C15_Witness ==
    /\ Evaluated("detectBreachPeriods")
    /\ NonDecreasing(series)
    /\ Len(rendered.result) = 2
    /\ rendered.result[1].end < rendered.result[2].start

\* point i lies inside one of the returned periods
InSomePeriod(i) ==
    \E k \in 1..Len(rendered.result) :
        rendered.result[k].start <= series[i].t /\ series[i].t <= rendered.result[k].end

Exceeding(point) ==
    {f \in PercentileFields : point[f] # Undefined /\ RGt(Num(point[f]), primarySLI.target)}

Severity == [f \in PercentileFields |->
                CASE f = "p50" -> 1 [] f = "p90" -> 2 [] f = "p95" -> 3 [] f = "p99" -> 4]

\* the highest-severity percentile of a point that exceeds the target
WorstExceeding(point) ==
    CHOOSE f \in Exceeding(point) : \A g \in Exceeding(point) : Severity[g] <= Severity[f]

\* C17: for a latency point with percentile data detectBreachPeriods checks
\* p99, p95, p90, p50 in that order, and the percentile recorded for the
\* breach the point opens is the highest-severity percentile that exceeds
\* the target (p99 over p95, p95 over p90, p90 over p50).
C17_WorstSignalWins ==
    (/\ Evaluated("detectBreachPeriods")
     /\ primarySLI.type = "latency"
     /\ Increasing(series)) =>
        \A k \in 1..Len(rendered.result) :
            \E i \in 1..Len(series) :
                /\ series[i].t = rendered.result[k].start
                /\ Exceeding(series[i]) # {}
                /\ rendered.result[k].percentile = WorstExceeding(series[i])

\* a period tagged p99 opened by a point whose p95 exceeds the target too,
\* and a period tagged p95 opened by a point whose p90 exceeds it too
C17_Witness ==
    /\ Evaluated("detectBreachPeriods")
    /\ primarySLI.type = "latency"
    /\ Increasing(series)
    /\ \E k \in 1..Len(rendered.result), i \in 1..Len(series) :
          /\ series[i].t = rendered.result[k].start
          /\ {"p95", "p99"} \subseteq Exceeding(series[i])
          /\ rendered.result[k].percentile = "p99"
    /\ \E k \in 1..Len(rendered.result), i \in 1..Len(series) :
          /\ series[i].t = rendered.result[k].start
          /\ {"p90", "p95"} \subseteq Exceeding(series[i])
          /\ "p99" \notin Exceeding(series[i])
          /\ rendered.result[k].percentile = "p95"

\* the incident condition for point i: a count ratio strictly below
\* target - 0.3, a latency value strictly above target * 1.25
IncidentExpectedAt(i) ==
    IF primarySLI.type \in CountTypes
    THEN RLt(Norm(100 * series[i].good, series[i].good + series[i].bad),
             RSub(primarySLI.target, Norm(3, 10)))
    ELSE series[i].value # Undefined
         /\ RGt(Num(series[i].value), RMul(primarySLI.target, Norm(125, 100)))

\* C19: detectIncidents emits, in input order, at most one incident per
\* point: for a count-type point exactly when its ratio is strictly less
\* than target - 0.3, for a latency point exactly when its value is strictly
\* greater than target * 1.25; for every count-based type (availability,
\* quality, freshness, correctness).
C19_PointIncidents ==
    (/\ Evaluated("detectIncidents")
     /\ primarySLI.type \in CountTypes =>
            \A i \in 1..Len(series) : series[i].good + series[i].bad > 0) =>
        LET expected == PointsAt({i \in 1..Len(series) : IncidentExpectedAt(i)})
        IN  /\ Len(rendered.result) = Len(expected)
            /\ \A k \in 1..Len(expected) : rendered.result[k].timestamp = expected[k].t

\* the (day of month, hour of day) of point i
DayHourAt(i) == <<getDate(series[i].t), getHours(series[i].t)>>

\* C24: aggregateByHour places every input point in exactly one bucket keyed
\* by (day of month, hour of day), returns exactly one entry per distinct
\* key whose value is the reduction of exactly the points with that key, and
\* two points from different months with the same day of month and hour
\* fall into the same bucket.
C24_HourBuckets ==
    Evaluated("aggregateByHour") =>
        /\ Len(rendered.result) = Cardinality({DayHourAt(i) : i \in 1..Len(series)})
        /\ \A i \in 1..Len(series) :
              Cardinality({k \in 1..Len(rendered.result) :
                              <<rendered.result[k].day, rendered.result[k].hour>> = DayHourAt(i)}) = 1
        /\ \A k \in 1..Len(rendered.result) :
              rendered.result[k].value =
                  getCurrentSLIValue(primarySLI,
                      PointsAt({i \in 1..Len(series) :
                                   DayHourAt(i) = <<rendered.result[k].day, rendered.result[k].hour>>}))
        /\ (\E i, j \in 1..Len(series) : series[j].t - series[i].t = 30 * 24) =>
              Len(rendered.result) < Len(series)

\* two points a month apart reduced into one bucket
C24_Witness ==
    /\ Evaluated("aggregateByHour")
    /\ Len(series) = 2
    /\ series[2].t - series[1].t = 30 * 24
    /\ series[1] # [series[2] EXCEPT !.t = series[1].t]
    /\ Len(rendered.result) = 1
    /\ rendered.result[1].value = getCurrentSLIValue(primarySLI, series)

\* C25: for a latency indicator whose points carry only the legacy value
\* field (no percentiles), every point with value > target lies inside some
\* period returned by detectBreachPeriods.
C25_LegacyValueBreaches ==
    (/\ Evaluated("detectBreachPeriods")
     /\ primarySLI.type = "latency"
     /\ Increasing(series)
     /\ \A i \in 1..Len(series) :
            \A f \in PercentileFields : series[i][f] = Undefined) =>
        \A i \in 1..Len(series) :
            (series[i].value # Undefined /\ RGt(Num(series[i].value), primarySLI.target)) =>
                InSomePeriod(i)

\* C26: calculateBurnRateTimeSeries emits exactly one sample per input point,
\* in input order and with that point's timestamp, for every non-empty
\* series and every windowHours >= 0; output length equals input length.
C26_OneSamplePerPoint ==
    (Evaluated("calculateBurnRateTimeSeries") /\ Len(series) > 0) =>
        /\ Len(rendered.result) = Len(series)
        /\ \A i \in 1..Len(series) : rendered.result[i].timestamp = series[i].t

\* a series out of time order with a zero-length lookback window: three
\* points in, three samples out
C26_Witness ==
    /\ Evaluated("calculateBurnRateTimeSeries")
    /\ rendered.windowHours = 0
    /\ Len(series) = 3
    /\ series[1].t > series[2].t
    /\ Len(rendered.result) = 3
    /\ \A i \in 1..3 : rendered.result[i].timestamp = series[i].t

\* C27: the percentile tag of a breach period is fixed by the first point of
\* the run: it equals the highest-priority breaching percentile of that
\* first point and is not changed by later points of the same run, even when
\* a later point breaches a higher-severity percentile.
C27_TagFromFirstPoint ==
    (Evaluated("detectBreachPeriods") /\ primarySLI.type = "latency") =>
        \A k \in 1..Len(rendered.result) :
            k <= Cardinality(MaximalRuns) =>
                rendered.result[k].percentile = WorstExceeding(series[NthRun(k)[1]])

\* a run opened by a point breaching p50 only and continued by a point
\* breaching p99: the period is tagged p50
C27_Witness ==
    /\ Evaluated("detectBreachPeriods")
    /\ primarySLI.type = "latency"
    /\ Cardinality(MaximalRuns) = 1
    /\ Len(rendered.result) = 1
    /\ LET run == NthRun(1)
       IN  /\ run[1] < run[2]
           /\ Exceeding(series[run[1]]) = {"p50"}
           /\ "p99" \in Exceeding(series[run[2]])
           /\ rendered.result[1].percentile = "p50"

(***************************************************************************)
(* Claims about the trend comparison (checked under TrendSpec).            *)
(***************************************************************************)
TrendRendered == rendered.component \in {"SLOCard.getTrendIndicator", "Home.recentChanges"}

\* the indices of the points in the recent window [E - 7d, E]
RecentIndices == IndicesWithin(demoEndDate - 7 * 24, demoEndDate)

\* the indices of the points in the prior window [E - 14d, E - 7d)
PriorIndices ==
    {i \in 1..Len(series) :
        demoEndDate - 14 * 24 <= series[i].t /\ series[i].t < demoEndDate - 7 * 24}

RecentValue == getCurrentSLIValue(primarySLI, PointsAt(RecentIndices))

PriorValue == getCurrentSLIValue(primarySLI, PointsAt(PriorIndices))

\* the difference of the two values in percent of the prior value
RelativeChange ==
    RDiv(RMul(IF RLt(RecentValue, PriorValue) THEN RSub(PriorValue, RecentValue)
              ELSE RSub(RecentValue, PriorValue), Num(100)),
         PriorValue)

\* improving when the recent value is higher for gte or lower for lte
DirectionOfChange ==
    IF \/ primarySLI.objectiveDirection = "gte" /\ RGt(RecentValue, PriorValue)
       \/ primarySLI.objectiveDirection = "lte" /\ RLt(RecentValue, PriorValue)
    THEN "improving"
    ELSE "worsening"

\* C21: when the recent and prior window values differ by exactly 1.0%
\* relative to the prior value, the trend comparison reports no trend; when
\* they differ by 5%, it reports improving if the recent value is higher for
\* a gte indicator or lower for an lte indicator, and worsening otherwise.
C21_TrendThreshold ==
    (/\ TrendRendered
     /\ Len(series) >= MinTrendPoints
     /\ PriorIndices # {}
     /\ PriorValue # Num(0)) =>
        /\ RelativeChange = Num(1) => rendered.trend = "none"
        /\ RelativeChange = Num(5) => rendered.trend = DirectionOfChange

\* C22: the trend comparison never divides by a zero-point or zero-valued
\* prior window: when the prior 7-day window contains no points, or its
\* reduced value is 0, no trend is reported.
C22_NoTrendWithoutPrior ==
    (TrendRendered /\ (PriorIndices = {} \/ PriorValue = Num(0))) =>
        rendered.trend = "none"

\* two weeks of data whose prior week reduces to 0 and whose recent week
\* does not: compared, no trend
C22_Witness ==
    /\ TrendRendered
    /\ rendered.compared
    /\ PriorIndices # {}
    /\ PriorValue = Num(0)
    /\ RGt(RecentValue, Num(0))
    /\ rendered.trend = "none"

\* C23: the two windows of the trend comparison are disjoint and
\* back-to-back: every point with timestamp in [E - 14d, E] is counted in
\* exactly one of the recent window [E - 7d, E] and the prior window
\* [E - 14d, E - 7d), and a point at exactly E - 7d belongs to the recent
\* window only.
C23_TrendWindowsDisjoint ==
    (TrendRendered /\ rendered.compared) =>
        /\ rendered.last7Days = PointsAt(RecentIndices)
        /\ rendered.previous7Days = PointsAt(PriorIndices)
        /\ Len(rendered.last7Days) + Len(rendered.previous7Days)
               = Cardinality(IndicesWithin(demoEndDate - 14 * 24, demoEndDate))
        /\ \A k \in 1..Len(rendered.previous7Days) :
              rendered.previous7Days[k].t # demoEndDate - 7 * 24

\* a point at exactly E - 7d: in the recent window, not in the prior one
C23_Witness ==
    /\ TrendRendered
    /\ rendered.compared
    /\ \E i \in 1..Len(series) : series[i].t = demoEndDate - 7 * 24
    /\ \E k \in 1..Len(rendered.last7Days) : rendered.last7Days[k].t = demoEndDate - 7 * 24
    /\ \A k \in 1..Len(rendered.previous7Days) :
          rendered.previous7Days[k].t < demoEndDate - 7 * 24
    /\ Len(rendered.previous7Days) = 7
    /\ Len(rendered.last7Days) = 8

(***************************************************************************)
(* Claims about the data store (checked under StoreSpec).                  *)
(***************************************************************************)
InFlight(c) == calls[c].pc # "settled"

\* both responses had ok and both bodies parsed
Succeeded(call) ==
    /\ call.seedResponse = "ok"
    /\ call.seriesResponse = "ok"
    /\ call.seedBody = "parsed"
    /\ call.seriesBody = "parsed"

\* loading from the start of a call until it settles, and never only one of
\* seed and series updated
FetchStateConsistent ==
    /\ store.loading <=> \E c \in 1..Len(calls) : InFlight(c)
    /\ store.loading => store.error = NoError
    /\ store.seed.from = store.series.from

\* a fetchData call starts: loading, error cleared, data kept
FetchStarts ==
    Len(calls') = Len(calls) + 1 =>
        /\ store'.loading
        /\ store'.error = NoError
        /\ store'.seed = store.seed
        /\ store'.series = store.series

\* a fetchData call settles: both replaced, or both kept and the error set
FetchSettles ==
    \A c \in 1..Len(calls) :
        (InFlight(c) /\ ~InFlight(c)') =>
            /\ ~store'.loading
            /\ IF Succeeded(calls'[c])
               THEN /\ store'.seed.from = c
                    /\ store'.series.from = c
                    /\ store'.error = NoError
               ELSE /\ store'.seed = store.seed
                    /\ store'.series = store.series
                    /\ store'.error # NoError

\* between the start and the settling of a call the store does not change
FetchAwaits ==
    (/\ Len(calls') = Len(calls)
     /\ \A c \in 1..Len(calls) : InFlight(c) = InFlight(c)') => store' = store

\* C30: fetchData is all-or-nothing: loading is true from the start of a
\* fetch until it settles; if both responses succeed, seed and series are
\* replaced together, loading becomes false and error stays null; otherwise
\* both keep their previous values, error becomes non-null and loading
\* becomes false; no reachable state has only one of seed and series
\* updated, and a later fetchData call clears error again.
C30_FetchAllOrNothing ==
    /\ []FetchStateConsistent
    /\ [][FetchStarts /\ FetchSettles /\ FetchAwaits]_vars

\* a successful fetch, then a failed one whose seed response was fine, then
\* a retry in flight: the first fetch's seed and series, error cleared
C30_Witness ==
    /\ Len(calls) = 3
    /\ Succeeded(calls[1])
    /\ calls[2].pc = "settled"
    /\ calls[2].seedBody = "parsed"
    /\ calls[2].seriesBody = "threw"
    /\ InFlight(3)
    /\ store.loading
    /\ store.error = NoError
    /\ store.seed.from = 1
    /\ store.series.from = 1

====
